---- MODULE Spec2Model ----
(***************************************************************************)
(* dotvanity: a vanity address generator.  A pool of worker threads        *)
(* (generate_matching_wallet) generates wallets, tests each address with   *)
(* Matcher::match_, sends the hits to the main thread over an mpsc channel *)
(* and reports attempt counts in batches; the main thread (main) validates *)
(* the configuration, spawns the workers, receives matches until it has    *)
(* wallet_count of them, then sends every worker its kill pill and joins.  *)
(*                                                                         *)
(* A Rust string is modelled as a sequence of one-character strings, an    *)
(* Option<usize> as a sequence of length 0 (None) or 1 (Some(n)).          *)
(***************************************************************************)
EXTENDS Integers, Sequences, FiniteSets, TLC

VARIABLES
    args,                 \* the parsed command line (main.rs 267-342)
    pc,                   \* position of the main thread
    i,                    \* index of main's current for-loop (spawn, kill, join)
    wpc,                  \* position of each worker thread
    wallet,               \* each worker's `wallet` (its address; <<>> when none is held)
    unreported_attempts,  \* each worker's local counter
    rx_queue,             \* the (tx, rx) channel: wallets sent, not yet received
    attempt_queue,        \* the (attempt_count_tx, attempt_count_rx) channel
    pill_queue,           \* per worker: number of () queued on its kill_pill channel
    pill_tx_alive,        \* per worker: main still holds kill_pill_tx
    matches_found,        \* main's matches_found
    total_attempts,       \* main's total_attempts
    emitted,              \* addresses printed by pretty_print, in order
    attempts,             \* number of Wallet::new calls made so far, all workers
    gen_after_kill,       \* per worker: Wallet::new calls begun after its pill was sent
    sent_log,             \* every wallet address sent on tx so far, in channel order
    candidate,            \* unit harness: the &str handed to match_
    verdict,              \* unit harness: what match_ / validate / the report returned
    verbose,              \* unit harness: the --verbose flag seen by the report
    elapsed,              \* unit harness: what start_time.elapsed() returned, in seconds
    reported              \* unit harness: the number the report printed, if any

vars == <<args, pc, i, wpc, wallet, unreported_attempts, rx_queue, attempt_queue,
          pill_queue, pill_tx_alive, matches_found, total_attempts, emitted,
          attempts, gen_after_kill, sent_log, candidate, verdict,
          verbose, elapsed, reported>>

engine_vars == <<pc, i, wpc, wallet, unreported_attempts, rx_queue, attempt_queue,
                 pill_queue, pill_tx_alive, matches_found, total_attempts, emitted,
                 attempts, gen_after_kill, sent_log>>

-----------------------------------------------------------------------------
(* Bounds of the exploration.                                              *)

MaxCpus == 2          \* --cpus ranges over 0..MaxCpus (u8 in the program)
MaxCount == 2         \* --count ranges over 0..MaxCount (u32 in the program)
MaxAttempts == 2      \* Wallet::new calls explored before any pill is sent
MaxCandLen == 3       \* unit harness: longest candidate address
MaxPatLen == 2        \* unit harness: longest startswith / endswith / contains of match_
MaxThreshold == 2     \* unit harness: largest digits / letters threshold of match_
MaxPrefixLen == 2     \* unit harness: longest startswith given to validate
MaxOtherLen == 1      \* unit harness: longest endswith / contains given to validate
MaxTotal == 12        \* unit harness: largest total_attempts handed to the report
MaxElapsed == 3       \* unit harness: largest elapsed.as_secs() handed to the report

\* The batch size of the attempt reports.  The program's value is 1000
\* (main.rs 163); the model runs with a small stand-in so that a flush
\* happens inside the explored runs.  Whatever is stated about the batch
\* size is stated relative to this definition.
report_threshold == 2

Workers == 1..MaxCpus

None == <<>>
Some(n) == <<n>>
is_some(o) == Len(o) = 1
unwrap(o) == o[1]

Strs(S, n) == UNION {[1..k -> S] : k \in 0..n}

-----------------------------------------------------------------------------
(* Characters.                                                             *)

ss58_chars ==
    {"1", "2", "3", "4", "5", "6", "7", "8", "9", "A", "B", "C", "D", "E", "F", "G", "H", "J",
     "K", "L", "M", "N", "P", "Q", "R", "S", "T", "U", "V", "W", "X", "Y", "Z", "a", "b", "c",
     "d", "e", "f", "g", "h", "i", "j", "k", "m", "n", "o", "p", "q", "r", "s", "t", "u", "v",
     "w", "x", "y", "z"}

is_valid_ss58_char(c) == c \in ss58_chars

ascii_digits == {"0", "1", "2", "3", "4", "5", "6", "7", "8", "9"}

ascii_uppercase ==
    {"A", "B", "C", "D", "E", "F", "G", "H", "I", "J", "K", "L", "M",
     "N", "O", "P", "Q", "R", "S", "T", "U", "V", "W", "X", "Y", "Z"}

ascii_lowercase ==
    {"a", "b", "c", "d", "e", "f", "g", "h", "i", "j", "k", "l", "m",
     "n", "o", "p", "q", "r", "s", "t", "u", "v", "w", "x", "y", "z"}

is_ascii_digit(c) == c \in ascii_digits

is_ascii_alphabetic(c) == c \in ascii_uppercase \cup ascii_lowercase

count_digits(string) ==
    Cardinality({k \in 1..Len(string) : is_ascii_digit(string[k])})

count_letters(string) ==
    Cardinality({k \in 1..Len(string) : is_ascii_alphabetic(string[k])})

-----------------------------------------------------------------------------
(* str::contains / starts_with / ends_with, as searches over the haystack. *)

RECURSIVE find_from(_, _, _)
find_from(haystack, needle, k) ==
    IF k + Len(needle) > Len(haystack) THEN FALSE
    ELSE IF SubSeq(haystack, k + 1, k + Len(needle)) = needle THEN TRUE
    ELSE find_from(haystack, needle, k + 1)

str_contains(haystack, needle) == find_from(haystack, needle, 0)

str_starts_with(haystack, needle) ==
    /\ Len(needle) <= Len(haystack)
    /\ SubSeq(haystack, 1, Len(needle)) = needle

str_ends_with(haystack, needle) ==
    /\ Len(needle) <= Len(haystack)
    /\ SubSeq(haystack, Len(haystack) - Len(needle) + 1, Len(haystack)) = needle

\* string.chars().all(is_valid_ss58_char)
all_valid_ss58(string) == \A k \in 1..Len(string) : is_valid_ss58_char(string[k])

-----------------------------------------------------------------------------
(* Matcher.                                                                *)

\* main.rs 344-351: the Matcher main builds from the command line
Matcher(a) ==
    [addr_type  |-> a.addr_type,
     startswith |-> a.startswith,
     endswith   |-> a.endswith,
     contains   |-> a.contains,
     digits     |-> a.digits,
     letters    |-> a.letters]

\* match_ with the thresholds compared the wrong way round at equality
match_StrictThreshold(self, cand) ==
    IF ~str_contains(cand, self.contains) THEN FALSE
    ELSE IF ~str_starts_with(cand, self.startswith) THEN FALSE
    ELSE IF ~str_ends_with(cand, self.endswith) THEN FALSE
    ELSE IF is_some(self.digits) /\ count_digits(cand) <= unwrap(self.digits) THEN FALSE
    ELSE IF is_some(self.letters) /\ count_letters(cand) <= unwrap(self.letters) THEN FALSE
    ELSE TRUE

match_(self, cand) ==
    IF ~str_contains(cand, self.contains) THEN FALSE
    ELSE IF ~str_starts_with(cand, self.startswith) THEN FALSE
    ELSE IF ~str_ends_with(cand, self.endswith) THEN FALSE
    ELSE IF is_some(self.digits) /\ count_digits(cand) < unwrap(self.digits) THEN FALSE
    ELSE IF is_some(self.letters) /\ count_letters(cand) < unwrap(self.letters) THEN FALSE
    ELSE TRUE

kusama_addr_first_chars == {"C", "D", "F", "G", "H", "J"}

\* validate with the character check of `contains` left out
validate_SkipContains(self) ==
    IF \/ ~all_valid_ss58(self.startswith)
       \/ ~all_valid_ss58(self.endswith)
    THEN "Err: SS58 incompatible characters"
    ELSE IF self.startswith # <<>>
    THEN LET first_char == Head(self.startswith) IN
         IF self.addr_type = 0 /\ first_char # "1"
         THEN "Err: Polkadot mainnet address must start with '1'"
         ELSE IF self.addr_type = 2 /\ first_char \notin kusama_addr_first_chars
         THEN "Err: Kusama address must start with one of CDFGHJ"
         ELSE IF self.addr_type = 42 /\ first_char # "5"
         THEN "Err: Generic Substrate address must start with '5'"
         ELSE "Ok"
    ELSE "Ok"

\* validate with the first-character rule of address type 42 left out
validate_NoSubstrateRule(self) ==
    IF \/ ~all_valid_ss58(self.startswith)
       \/ ~all_valid_ss58(self.endswith)
       \/ ~all_valid_ss58(self.contains)
    THEN "Err: SS58 incompatible characters"
    ELSE IF self.startswith # <<>>
    THEN LET first_char == Head(self.startswith) IN
         IF self.addr_type = 0 /\ first_char # "1"
         THEN "Err: Polkadot mainnet address must start with '1'"
         ELSE IF self.addr_type = 2 /\ first_char \notin kusama_addr_first_chars
         THEN "Err: Kusama address must start with one of CDFGHJ"
         ELSE "Ok"
    ELSE "Ok"

validate(self) ==
    IF \/ ~all_valid_ss58(self.startswith)
       \/ ~all_valid_ss58(self.endswith)
       \/ ~all_valid_ss58(self.contains)
    THEN "Err: SS58 incompatible characters"
    ELSE IF self.startswith # <<>>
    THEN LET first_char == Head(self.startswith) IN
         IF self.addr_type = 0 /\ first_char # "1"
         THEN "Err: Polkadot mainnet address must start with '1'"
         ELSE IF self.addr_type = 2 /\ first_char \notin kusama_addr_first_chars
         THEN "Err: Kusama address must start with one of CDFGHJ"
         ELSE IF self.addr_type = 42 /\ first_char # "5"
         THEN "Err: Generic Substrate address must start with '5'"
         ELSE "Ok"
    ELSE "Ok"

-----------------------------------------------------------------------------
(* Wallet.                                                                 *)

\* Wallet::new: a fresh sr25519 key pair and its SS58 address.  The key
\* generation and the encoding are external (sp_core); what the engine sees
\* is an address it does not choose.  The model draws it from a small set
\* of abstract addresses of the Polkadot format (leading '1').
Wallet_new(addr_format, with_phrase) == {<<"1", "a">>, <<"1", "2">>}

NoWallet == <<>>

-----------------------------------------------------------------------------
(* The engine: initial state.                                              *)

EngineArgs ==
    [cpus : 0..MaxCpus, count : 0..MaxCount, addr_type : {0, 128},
     digits : {None, Some(2), Some(49)}, letters : {None, Some(49)},
     startswith : {<<>>, <<"2">>}, endswith : {<<>>}, contains : {<<>>, <<"0">>}]

EngineStart(at) ==
    /\ pc = at
    /\ i = 0
    /\ wpc = [w \in Workers |-> "unspawned"]
    /\ wallet = [w \in Workers |-> NoWallet]
    /\ unreported_attempts = [w \in Workers |-> 0]
    /\ rx_queue = <<>>
    /\ attempt_queue = <<>>
    /\ pill_queue = [w \in Workers |-> 0]
    /\ pill_tx_alive = [w \in Workers |-> FALSE]
    /\ matches_found = 0
    /\ total_attempts = 0
    /\ emitted = <<>>
    /\ attempts = 0
    /\ gen_after_kill = [w \in Workers |-> 0]
    /\ sent_log = <<>>

\* The report harness is idle outside its own specification.
ReportIdle == verbose = FALSE /\ elapsed = None /\ reported = None

Init ==
    /\ args \in EngineArgs
    /\ EngineStart("check_addr_type")
    /\ candidate = <<>>
    /\ verdict = "none"
    /\ ReportIdle

-----------------------------------------------------------------------------
(* The engine: the main thread.                                            *)

\* main.rs 305-308
CheckAddrType ==
    /\ pc = "check_addr_type"
    /\ pc' = IF args.addr_type > 127 THEN "exit1" ELSE "check_digits"
    /\ UNCHANGED <<args, i, wpc, wallet, unreported_attempts, rx_queue, attempt_queue,
                   pill_queue, pill_tx_alive, matches_found, total_attempts, emitted,
                   attempts, gen_after_kill, sent_log, candidate, verdict,
                   verbose, elapsed, reported>>

\* main.rs 320-325
CheckDigits ==
    /\ pc = "check_digits"
    /\ pc' = IF is_some(args.digits) /\ unwrap(args.digits) > 48
             THEN "exit1" ELSE "check_letters"
    /\ UNCHANGED <<args, i, wpc, wallet, unreported_attempts, rx_queue, attempt_queue,
                   pill_queue, pill_tx_alive, matches_found, total_attempts, emitted,
                   attempts, gen_after_kill, sent_log, candidate, verdict,
                   verbose, elapsed, reported>>

\* main.rs 337-342
CheckLetters ==
    /\ pc = "check_letters"
    /\ pc' = IF is_some(args.letters) /\ unwrap(args.letters) > 48
             THEN "exit1" ELSE "validate"
    /\ UNCHANGED <<args, i, wpc, wallet, unreported_attempts, rx_queue, attempt_queue,
                   pill_queue, pill_tx_alive, matches_found, total_attempts, emitted,
                   attempts, gen_after_kill, sent_log, candidate, verdict,
                   verbose, elapsed, reported>>

\* Validate with the result of validate() ignored
Validate_Ignored ==
    /\ pc = "validate"
    /\ pc' = "spawn"
    /\ UNCHANGED <<args, i, wpc, wallet, unreported_attempts, rx_queue, attempt_queue,
                   pill_queue, pill_tx_alive, matches_found, total_attempts, emitted,
                   attempts, gen_after_kill, sent_log, candidate, verdict,
                   verbose, elapsed, reported>>

\* main.rs 344-356
Validate ==
    /\ pc = "validate"
    /\ pc' = IF validate(Matcher(args)) # "Ok" THEN "exit1" ELSE "spawn"
    /\ UNCHANGED <<args, i, wpc, wallet, unreported_attempts, rx_queue, attempt_queue,
                   pill_queue, pill_tx_alive, matches_found, total_attempts, emitted,
                   attempts, gen_after_kill, sent_log, candidate, verdict,
                   verbose, elapsed, reported>>

\* main.rs 358-382: one turn of `for _child_index in 0..cpu_count`; the
\* spawned thread starts at the top of generate_matching_wallet's loop
SpawnChildren ==
    /\ pc = "spawn"
    /\ IF i < args.cpus
       THEN /\ wpc' = [wpc EXCEPT ![i + 1] = "generate"]
            /\ pill_tx_alive' = [pill_tx_alive EXCEPT ![i + 1] = TRUE]
            /\ i' = i + 1
            /\ pc' = pc
       ELSE /\ pc' = "loop"
            /\ i' = 0
            /\ UNCHANGED <<wpc, pill_tx_alive>>
    /\ UNCHANGED <<args, wallet, unreported_attempts, rx_queue, attempt_queue,
                   pill_queue, matches_found, total_attempts, emitted,
                   attempts, gen_after_kill, sent_log, candidate, verdict,
                   verbose, elapsed, reported>>

\* RecvOk that drops a wallet whose address was printed before
RecvOk_Dedup ==
    /\ pc = "loop"
    /\ matches_found < args.count
    /\ rx_queue # <<>>
    /\ IF \E k \in 1..Len(emitted) : emitted[k] = Head(rx_queue)
       THEN UNCHANGED <<matches_found, emitted>>
       ELSE /\ matches_found' = matches_found + 1
            /\ emitted' = Append(emitted, Head(rx_queue))
    /\ rx_queue' = Tail(rx_queue)
    /\ pc' = "drain"
    /\ UNCHANGED <<args, i, wpc, wallet, unreported_attempts, attempt_queue,
                   pill_queue, pill_tx_alive, total_attempts,
                   attempts, gen_after_kill, sent_log, candidate, verdict,
                   verbose, elapsed, reported>>

\* RecvOk with the loop test matches_found < wallet_count left out
RecvOk_NoLoopTest ==
    /\ pc = "loop"
    /\ rx_queue # <<>>
    /\ matches_found' = matches_found + 1
    /\ emitted' = Append(emitted, Head(rx_queue))
    /\ rx_queue' = Tail(rx_queue)
    /\ pc' = "drain"
    /\ UNCHANGED <<args, i, wpc, wallet, unreported_attempts, attempt_queue,
                   pill_queue, pill_tx_alive, total_attempts,
                   attempts, gen_after_kill, sent_log, candidate, verdict,
                   verbose, elapsed, reported>>

\* main.rs 384-390: the loop test holds and recv_timeout returns Ok
RecvOk ==
    /\ pc = "loop"
    /\ matches_found < args.count
    /\ rx_queue # <<>>
    /\ matches_found' = matches_found + 1
    /\ emitted' = Append(emitted, Head(rx_queue))
    /\ rx_queue' = Tail(rx_queue)
    /\ pc' = "drain"
    /\ UNCHANGED <<args, i, wpc, wallet, unreported_attempts, attempt_queue,
                   pill_queue, pill_tx_alive, total_attempts,
                   attempts, gen_after_kill, sent_log, candidate, verdict,
                   verbose, elapsed, reported>>

\* RecvTimeout that gives up the search: the Timeout arm breaks out of the loop
RecvTimeout_Break ==
    /\ pc = "loop"
    /\ matches_found < args.count
    /\ rx_queue = <<>>
    /\ pc' = "kill"
    /\ UNCHANGED <<args, i, wpc, wallet, unreported_attempts, rx_queue, attempt_queue,
                   pill_queue, pill_tx_alive, matches_found, total_attempts, emitted,
                   attempts, gen_after_kill, sent_log, candidate, verdict,
                   verbose, elapsed, reported>>

\* RecvTimeout that throws away a wallet arriving as the wait runs out
RecvTimeout_Lossy ==
    /\ pc = "loop"
    /\ matches_found < args.count
    /\ rx_queue' = IF rx_queue = <<>> THEN rx_queue ELSE Tail(rx_queue)
    /\ pc' = "drain"
    /\ UNCHANGED <<args, i, wpc, wallet, unreported_attempts, attempt_queue,
                   pill_queue, pill_tx_alive, matches_found, total_attempts, emitted,
                   attempts, gen_after_kill, sent_log, candidate, verdict,
                   verbose, elapsed, reported>>

\* main.rs 384-385, 392: the loop test holds and nothing arrives in 3 s
\* (main holds tx and rx itself, so Disconnected is not an outcome here)
RecvTimeout ==
    /\ pc = "loop"
    /\ matches_found < args.count
    /\ rx_queue = <<>>
    /\ pc' = "drain"
    /\ UNCHANGED <<args, i, wpc, wallet, unreported_attempts, rx_queue, attempt_queue,
                   pill_queue, pill_tx_alive, matches_found, total_attempts, emitted,
                   attempts, gen_after_kill, sent_log, candidate, verdict,
                   verbose, elapsed, reported>>

RECURSIVE seq_sum(_)
seq_sum(q) == IF q = <<>> THEN 0 ELSE Head(q) + seq_sum(Tail(q))

\* main.rs 395-408: try_iter().sum() empties the count channel; the verbose
\* report prints and changes nothing
DrainAttempts ==
    /\ pc = "drain"
    /\ total_attempts' = total_attempts + seq_sum(attempt_queue)
    /\ attempt_queue' = <<>>
    /\ pc' = "loop"
    /\ UNCHANGED <<args, i, wpc, wallet, unreported_attempts, rx_queue,
                   pill_queue, pill_tx_alive, matches_found, emitted,
                   attempts, gen_after_kill, sent_log, candidate, verdict,
                   verbose, elapsed, reported>>

\* ExitLoop with the loop test off by one
ExitLoop_OffByOne ==
    /\ pc = "loop"
    /\ ~(matches_found + 1 < args.count)
    /\ pc' = "kill"
    /\ UNCHANGED <<args, i, wpc, wallet, unreported_attempts, rx_queue, attempt_queue,
                   pill_queue, pill_tx_alive, matches_found, total_attempts, emitted,
                   attempts, gen_after_kill, sent_log, candidate, verdict,
                   verbose, elapsed, reported>>

\* main.rs 384, 409: the loop test fails
ExitLoop ==
    /\ pc = "loop"
    /\ ~(matches_found < args.count)
    /\ pc' = "kill"
    /\ UNCHANGED <<args, i, wpc, wallet, unreported_attempts, rx_queue, attempt_queue,
                   pill_queue, pill_tx_alive, matches_found, total_attempts, emitted,
                   attempts, gen_after_kill, sent_log, candidate, verdict,
                   verbose, elapsed, reported>>

\* KillPills with the last worker left without its pill
KillPills_SkipLast ==
    /\ pc = "kill"
    /\ IF i + 1 < args.cpus
       THEN IF wpc[i + 1] \in {"exited", "panicked"}
            THEN /\ pc' = "panicked"
                 /\ UNCHANGED <<i, pill_queue, pill_tx_alive>>
            ELSE /\ pill_queue' = [pill_queue EXCEPT ![i + 1] = @ + 1]
                 /\ pill_tx_alive' = [pill_tx_alive EXCEPT ![i + 1] = FALSE]
                 /\ i' = i + 1
                 /\ pc' = pc
       ELSE /\ pc' = "join"
            /\ i' = 0
            /\ UNCHANGED <<pill_queue, pill_tx_alive>>
    /\ UNCHANGED <<args, wpc, wallet, unreported_attempts, rx_queue, attempt_queue,
                   matches_found, total_attempts, emitted,
                   attempts, gen_after_kill, sent_log, candidate, verdict,
                   verbose, elapsed, reported>>

\* KillPills that drops each Sender without sending on it
KillPills_DropOnly ==
    /\ pc = "kill"
    /\ IF i < args.cpus
       THEN /\ pill_tx_alive' = [pill_tx_alive EXCEPT ![i + 1] = FALSE]
            /\ i' = i + 1
            /\ pc' = pc
       ELSE /\ pc' = "join"
            /\ i' = 0
            /\ UNCHANGED pill_tx_alive
    /\ UNCHANGED <<args, wpc, wallet, unreported_attempts, rx_queue, attempt_queue,
                   pill_queue, matches_found, total_attempts, emitted,
                   attempts, gen_after_kill, sent_log, candidate, verdict,
                   verbose, elapsed, reported>>

\* main.rs 412-414: one turn of `for pill in kill_pills`: send (), unwrap,
\* then the Sender moved into `pill` is dropped.  send fails when the
\* worker's Receiver is gone, which is when the worker has returned.
KillPills ==
    /\ pc = "kill"
    /\ IF i < args.cpus
       THEN IF wpc[i + 1] \in {"exited", "panicked"}
            THEN /\ pc' = "panicked"
                 /\ UNCHANGED <<i, pill_queue, pill_tx_alive>>
            ELSE /\ pill_queue' = [pill_queue EXCEPT ![i + 1] = @ + 1]
                 /\ pill_tx_alive' = [pill_tx_alive EXCEPT ![i + 1] = FALSE]
                 /\ i' = i + 1
                 /\ pc' = pc
       ELSE /\ pc' = "join"
            /\ i' = 0
            /\ UNCHANGED <<pill_queue, pill_tx_alive>>
    /\ UNCHANGED <<args, wpc, wallet, unreported_attempts, rx_queue, attempt_queue,
                   matches_found, total_attempts, emitted,
                   attempts, gen_after_kill, sent_log, candidate, verdict,
                   verbose, elapsed, reported>>

\* main.rs 415-418: one turn of `for child in children`: join blocks until
\* the thread has ended; unwrap panics when the thread panicked
JoinChildren ==
    /\ pc = "join"
    /\ IF i < args.cpus
       THEN /\ wpc[i + 1] \in {"exited", "panicked"}
            /\ IF wpc[i + 1] = "panicked"
               THEN pc' = "panicked" /\ i' = i
               ELSE pc' = pc /\ i' = i + 1
       ELSE /\ pc' = "done"
            /\ i' = i
    /\ UNCHANGED <<args, wpc, wallet, unreported_attempts, rx_queue, attempt_queue,
                   pill_queue, pill_tx_alive, matches_found, total_attempts, emitted,
                   attempts, gen_after_kill, sent_log, candidate, verdict,
                   verbose, elapsed, reported>>

Main ==
    \/ CheckAddrType
    \/ CheckDigits
    \/ CheckLetters
    \/ Validate
    \/ SpawnChildren
    \/ RecvOk
    \/ RecvTimeout
    \/ DrainAttempts
    \/ ExitLoop
    \/ KillPills
    \/ JoinChildren

-----------------------------------------------------------------------------
(* The engine: a worker thread, generate_matching_wallet.                  *)

\* main ends the process when it returns or panics; until then it holds rx
\* and attempt_count_rx
rx_dropped == pc \in {"done", "panicked"}

\* The exploration stops handing out new wallets after MaxAttempts calls.
\* A worker whose pill has been sent is exempt: it has at most the rest of
\* one iteration to run, so the bound never keeps it from its poll.
WithinHorizon(w) == attempts < MaxAttempts \/ ~pill_tx_alive[w]

\* Generate with the kill pill polled first, at the top of the loop
Generate_PollFirst(w) ==
    /\ wpc[w] = "generate"
    /\ WithinHorizon(w)
    /\ IF pill_queue[w] > 0
       THEN /\ pill_queue' = [pill_queue EXCEPT ![w] = @ - 1]
            /\ wpc' = [wpc EXCEPT ![w] = "exited"]
            /\ UNCHANGED <<wallet, attempts, gen_after_kill>>
       ELSE /\ \E a \in Wallet_new(args.addr_type, FALSE) :
                   wallet' = [wallet EXCEPT ![w] = a]
            /\ attempts' = attempts + 1
            /\ gen_after_kill' = [gen_after_kill EXCEPT
                                     ![w] = IF pill_tx_alive[w] THEN @ ELSE @ + 1]
            /\ wpc' = [wpc EXCEPT ![w] = "test"]
            /\ UNCHANGED pill_queue
    /\ UNCHANGED <<args, pc, i, unreported_attempts, rx_queue, attempt_queue,
                   pill_tx_alive, matches_found, total_attempts, emitted,
                   sent_log, candidate, verdict,
                   verbose, elapsed, reported>>

\* main.rs 157-158: the top of the loop, wallet = Wallet::new(..)
Generate(w) ==
    /\ wpc[w] = "generate"
    /\ WithinHorizon(w)
    /\ \E a \in Wallet_new(args.addr_type, FALSE) :
           wallet' = [wallet EXCEPT ![w] = a]
    /\ attempts' = attempts + 1
    /\ gen_after_kill' = [gen_after_kill EXCEPT ![w] = IF pill_tx_alive[w] THEN @ ELSE @ + 1]
    /\ wpc' = [wpc EXCEPT ![w] = "test"]
    /\ UNCHANGED <<args, pc, i, unreported_attempts, rx_queue, attempt_queue,
                   pill_queue, pill_tx_alive, matches_found, total_attempts, emitted,
                   sent_log, candidate, verdict,
                   verbose, elapsed, reported>>

\* SendMatch with the match_ test left out: every wallet is sent
SendMatch_Unconditional(w) ==
    /\ wpc[w] = "test"
    /\ rx_queue' = Append(rx_queue, wallet[w])
    /\ wpc' = [wpc EXCEPT ![w] = "count"]
    /\ sent_log' = IF rx_queue' = rx_queue THEN sent_log ELSE Append(sent_log, wallet[w])
    /\ wallet' = [wallet EXCEPT ![w] = NoWallet]
    /\ UNCHANGED <<args, pc, i, unreported_attempts, attempt_queue,
                   pill_queue, pill_tx_alive, matches_found, total_attempts, emitted,
                   attempts, gen_after_kill, candidate, verdict,
                   verbose, elapsed, reported>>

\* SendMatch over a sync_channel(1): the send waits while a wallet is queued
SendMatch_SyncChannel(w) ==
    /\ wpc[w] = "test"
    /\ IF match_(Matcher(args), wallet[w])
       THEN /\ Len(rx_queue) < 1
            /\ rx_queue' = Append(rx_queue, wallet[w])
       ELSE UNCHANGED rx_queue
    /\ wpc' = [wpc EXCEPT ![w] = "count"]
    /\ sent_log' = IF rx_queue' = rx_queue THEN sent_log ELSE Append(sent_log, wallet[w])
    /\ wallet' = [wallet EXCEPT ![w] = NoWallet]
    /\ UNCHANGED <<args, pc, i, unreported_attempts, attempt_queue,
                   pill_queue, pill_tx_alive, matches_found, total_attempts, emitted,
                   attempts, gen_after_kill, candidate, verdict,
                   verbose, elapsed, reported>>

\* main.rs 159-161: the wallet is sent when its address matches (an mpsc
\* channel is unbounded: send never waits, and fails only when rx is gone);
\* the wallet is dead after this statement either way
SendMatch(w) ==
    /\ wpc[w] = "test"
    /\ IF match_(Matcher(args), wallet[w])
       THEN IF rx_dropped
            THEN /\ wpc' = [wpc EXCEPT ![w] = "panicked"]
                 /\ UNCHANGED <<rx_queue, sent_log>>
            ELSE /\ rx_queue' = Append(rx_queue, wallet[w])
                 /\ sent_log' = Append(sent_log, wallet[w])
                 /\ wpc' = [wpc EXCEPT ![w] = "count"]
       ELSE /\ wpc' = [wpc EXCEPT ![w] = "count"]
            /\ UNCHANGED <<rx_queue, sent_log>>
    /\ wallet' = [wallet EXCEPT ![w] = NoWallet]
    /\ UNCHANGED <<args, pc, i, unreported_attempts, attempt_queue,
                   pill_queue, pill_tx_alive, matches_found, total_attempts, emitted,
                   attempts, gen_after_kill, candidate, verdict,
                   verbose, elapsed, reported>>

\* CountAttempt that sends the batch and forgets to reset the counter
CountAttempt_NoReset(w) ==
    /\ wpc[w] = "count"
    /\ LET n == unreported_attempts[w] + 1 IN
       /\ unreported_attempts' = [unreported_attempts EXCEPT ![w] = n]
       /\ attempt_queue' = IF n >= report_threshold
                           THEN Append(attempt_queue, n)
                           ELSE attempt_queue
    /\ wpc' = [wpc EXCEPT ![w] = "poll"]
    /\ UNCHANGED <<args, pc, i, wallet, rx_queue,
                   pill_queue, pill_tx_alive, matches_found, total_attempts, emitted,
                   attempts, gen_after_kill, sent_log, candidate, verdict,
                   verbose, elapsed, reported>>

\* main.rs 163-168
CountAttempt(w) ==
    /\ wpc[w] = "count"
    /\ LET n == unreported_attempts[w] + 1 IN
       IF n >= report_threshold
       THEN IF rx_dropped
            THEN /\ wpc' = [wpc EXCEPT ![w] = "panicked"]
                 /\ unreported_attempts' = [unreported_attempts EXCEPT ![w] = n]
                 /\ UNCHANGED attempt_queue
            ELSE /\ attempt_queue' = Append(attempt_queue, n)
                 /\ unreported_attempts' = [unreported_attempts EXCEPT ![w] = 0]
                 /\ wpc' = [wpc EXCEPT ![w] = "poll"]
       ELSE /\ unreported_attempts' = [unreported_attempts EXCEPT ![w] = n]
            /\ wpc' = [wpc EXCEPT ![w] = "poll"]
            /\ UNCHANGED attempt_queue
    /\ UNCHANGED <<args, pc, i, wallet, rx_queue,
                   pill_queue, pill_tx_alive, matches_found, total_attempts, emitted,
                   attempts, gen_after_kill, sent_log, candidate, verdict,
                   verbose, elapsed, reported>>

\* PollKillPill that sends the unreported remainder before it leaves
PollKillPill_FlushOnExit(w) ==
    /\ wpc[w] = "poll"
    /\ IF pill_queue[w] > 0
       THEN /\ pill_queue' = [pill_queue EXCEPT ![w] = @ - 1]
            /\ attempt_queue' = Append(attempt_queue, unreported_attempts[w])
            /\ wpc' = [wpc EXCEPT ![w] = "exited"]
       ELSE /\ wpc' = [wpc EXCEPT ![w] = "generate"]
            /\ UNCHANGED <<pill_queue, attempt_queue>>
    /\ UNCHANGED <<args, pc, i, wallet, unreported_attempts, rx_queue,
                   pill_tx_alive, matches_found, total_attempts, emitted,
                   attempts, gen_after_kill, sent_log, candidate, verdict,
                   verbose, elapsed, reported>>

\* PollKillPill with the poll made only after a flush of the counter
PollKillPill_AfterFlushOnly(w) ==
    /\ wpc[w] = "poll"
    /\ IF unreported_attempts[w] = 0 /\ pill_queue[w] > 0
       THEN /\ pill_queue' = [pill_queue EXCEPT ![w] = @ - 1]
            /\ wpc' = [wpc EXCEPT ![w] = "exited"]
       ELSE /\ wpc' = [wpc EXCEPT ![w] = "generate"]
            /\ UNCHANGED pill_queue
    /\ UNCHANGED <<args, pc, i, wallet, unreported_attempts, rx_queue, attempt_queue,
                   pill_tx_alive, matches_found, total_attempts, emitted,
                   attempts, gen_after_kill, sent_log, candidate, verdict,
                   verbose, elapsed, reported>>

\* main.rs 170-176: try_recv returns a queued () first, Disconnected when
\* the queue is empty and the Sender is gone, Empty otherwise
PollKillPill(w) ==
    /\ wpc[w] = "poll"
    /\ IF pill_queue[w] > 0
       THEN /\ pill_queue' = [pill_queue EXCEPT ![w] = @ - 1]
            /\ wpc' = [wpc EXCEPT ![w] = "exited"]
       ELSE IF ~pill_tx_alive[w]
       THEN /\ wpc' = [wpc EXCEPT ![w] = "exited"]
            /\ UNCHANGED pill_queue
       ELSE /\ wpc' = [wpc EXCEPT ![w] = "generate"]
            /\ UNCHANGED pill_queue
    /\ UNCHANGED <<args, pc, i, wallet, unreported_attempts, rx_queue, attempt_queue,
                   pill_tx_alive, matches_found, total_attempts, emitted,
                   attempts, gen_after_kill, sent_log, candidate, verdict,
                   verbose, elapsed, reported>>

Worker(w) ==
    \/ Generate(w)
    \/ SendMatch(w)
    \/ CountAttempt(w)
    \/ PollKillPill(w)

-----------------------------------------------------------------------------
(* The engine: specifications.                                             *)

Next == Main \/ \E w \in Workers : Worker(w)

Spec == Init /\ [][Next]_vars

\* The threads are OS threads: each one that can take a step eventually does.
Fairness == WF_vars(Main) /\ \A w \in Workers : WF_vars(Worker(w))

\* The liveness runs start from the command lines that set --digits: under
\* that matcher Wallet::new yields matching and non-matching addresses alike.
LiveInit == Init /\ is_some(args.digits)

LiveSpec == LiveInit /\ [][Next]_vars /\ Fairness

-----------------------------------------------------------------------------
(* Unit harness: Matcher::match_ and Matcher::validate applied to inputs   *)
(* drawn from bounded sets, the engine idle.                               *)

Opts(n) == {None} \cup {Some(k) : k \in 0..n}

MatchChars == {"1", "a"}

MatchPatterns == Strs(MatchChars, MaxPatLen)

MatchThresholds == Opts(MaxThreshold)

MatchCandidates == Strs(MatchChars, MaxCandLen)

MatchArgs ==
    [cpus : {0}, count : {0}, addr_type : {0},
     digits : MatchThresholds, letters : MatchThresholds,
     startswith : MatchPatterns, endswith : MatchPatterns, contains : MatchPatterns]

MatchInit ==
    /\ args \in MatchArgs
    /\ candidate \in MatchCandidates
    /\ verdict = "none"
    /\ ReportIdle
    /\ EngineStart("unit")

\* main.rs 159: matcher.match_(&wallet.address)
RunMatch ==
    /\ verdict = "none"
    /\ verdict' = IF match_(Matcher(args), candidate) THEN "true" ELSE "false"
    /\ UNCHANGED <<args, candidate, verbose, elapsed, reported>>
    /\ UNCHANGED engine_vars

MatchSpec == MatchInit /\ [][RunMatch]_vars

PrefixChars == {"1", "2", "5", "C", "0", "l"}

OtherChars == {"5", "O", "I", "-"}

ValidatePrefixes == Strs(PrefixChars, MaxPrefixLen)

ValidateOthers == Strs(OtherChars, MaxOtherLen)

ValidateArgs ==
    [cpus : {0}, count : {0}, addr_type : {0, 2, 42, 7},
     digits : {None}, letters : {None},
     startswith : ValidatePrefixes, endswith : ValidateOthers, contains : ValidateOthers]

ValidateInit ==
    /\ args \in ValidateArgs
    /\ candidate = <<>>
    /\ verdict = "none"
    /\ ReportIdle
    /\ EngineStart("unit")

\* main.rs 353 and the tests, 424-451: matcher.validate()
RunValidate ==
    /\ verdict = "none"
    /\ verdict' = validate(Matcher(args))
    /\ UNCHANGED <<args, candidate, verbose, elapsed, reported>>
    /\ UNCHANGED engine_vars

ValidateSpec == ValidateInit /\ [][RunValidate]_vars

\* main.rs 404: total_attempts / elapsed.as_secs() on u64; Rust panics with
\* "attempt to divide by zero" when the divisor is 0 (None stands for that)
u64_div(a, b) == IF b = 0 THEN None ELSE Some(a \div b)

\* report with the test elapsed_secs != 0 left out
report_Unguarded(flag, el, total) ==
    IF flag /\ is_some(el)
    THEN LET q == u64_div(total, unwrap(el)) IN
         IF is_some(q) THEN [outcome |-> "printed", value |-> q]
                       ELSE [outcome |-> "panicked", value |-> None]
    ELSE [outcome |-> "silent", value |-> None]

\* main.rs 398-408: the verbose report of one loop iteration.  el is the
\* Result of start_time.elapsed(): None for Err, Some(secs) for Ok with
\* as_secs() = secs
report(flag, el, total) ==
    IF flag /\ is_some(el)
    THEN LET elapsed_secs == unwrap(el) IN
         IF elapsed_secs # 0
         THEN LET q == u64_div(total, unwrap(el)) IN
              IF is_some(q) THEN [outcome |-> "printed", value |-> q]
                            ELSE [outcome |-> "panicked", value |-> None]
         ELSE [outcome |-> "silent", value |-> None]
    ELSE [outcome |-> "silent", value |-> None]

ElapsedResults == {None} \cup {Some(n) : n \in 0..MaxElapsed}

\* The report is applied to every total_attempts, flag and clock reading
\* within the bounds; the threads are not running.
ReportInit ==
    /\ args \in [cpus : {0}, count : {0}, addr_type : {0}, digits : {None},
                 letters : {None}, startswith : {<<>>}, endswith : {<<>>},
                 contains : {<<>>}]
    /\ pc = "unit"
    /\ i = 0
    /\ wpc = [w \in Workers |-> "unspawned"]
    /\ wallet = [w \in Workers |-> NoWallet]
    /\ unreported_attempts = [w \in Workers |-> 0]
    /\ rx_queue = <<>>
    /\ attempt_queue = <<>>
    /\ pill_queue = [w \in Workers |-> 0]
    /\ pill_tx_alive = [w \in Workers |-> FALSE]
    /\ matches_found = 0
    /\ total_attempts \in 0..MaxTotal
    /\ emitted = <<>>
    /\ attempts = 0
    /\ gen_after_kill = [w \in Workers |-> 0]
    /\ sent_log = <<>>
    /\ candidate = <<>>
    /\ verdict = "none"
    /\ verbose \in BOOLEAN
    /\ elapsed \in ElapsedResults
    /\ reported = None

\* main.rs 398-408
RunReport ==
    /\ verdict = "none"
    /\ LET r == report(verbose, elapsed, total_attempts) IN
           /\ verdict' = r.outcome
           /\ reported' = r.value
    /\ UNCHANGED <<args, candidate, verbose, elapsed>>
    /\ UNCHANGED engine_vars

ReportSpec == ReportInit /\ [][RunReport]_vars

-----------------------------------------------------------------------------
(* Properties of the engine.                                               *)

Spawned == 1..args.cpus

LoopLeft == pc \in {"kill", "join", "done"}

\* C1: main never prints more than wallet_count matches, whatever the
\* workers do, and when it has left its receive loop it has printed exactly
\* wallet_count of them.
C1_ExactlyKMatches ==
    /\ matches_found <= args.count
    /\ Len(emitted) = matches_found
    /\ LoopLeft => matches_found = args.count

\* C1 witness: two workers, two matches wanted, main has just left the loop
\* and has sent no pill yet.
C1_Witness ==
    /\ pc = "kill" /\ i = 0
    /\ args.cpus = 2 /\ args.count = 2
    /\ Len(emitted) = 2

\* C2: every wallet on the match channel, and every wallet main has
\* printed, has an address that match_ accepts.
C2_OnlyMatchesSent ==
    /\ \A k \in 1..Len(rx_queue) : match_(Matcher(args), rx_queue[k])
    /\ \A k \in 1..Len(emitted) : match_(Matcher(args), emitted[k])

\* C2 witness: under a matcher that rejects some addresses, two wallets were
\* generated and tested, one was sent and printed, the other was not sent.
C2_Witness ==
    /\ args.digits = Some(2)
    /\ attempts = 2
    /\ \A w \in Workers : wpc[w] # "test"
    /\ Len(emitted) = 1 /\ rx_queue = <<>>

\* The configuration errors main checks for.
ConfigError ==
    \/ args.addr_type > 127
    \/ is_some(args.digits) /\ unwrap(args.digits) > 48
    \/ is_some(args.letters) /\ unwrap(args.letters) > 48
    \/ validate(Matcher(args)) # "Ok"

\* C5: with a configuration error the run never gets past the checks: no
\* worker is spawned, no wallet is generated, nothing is sent.
C5_NoWorkAfterConfigError ==
    ConfigError =>
        /\ pc \in {"check_addr_type", "check_digits", "check_letters", "validate", "exit1"}
        /\ \A w \in Workers : wpc[w] = "unspawned"
        /\ attempts = 0
        /\ rx_queue = <<>> /\ attempt_queue = <<>>

\* C5 witness: the numbers are in range, validate fails, the run has ended
\* with the error.
C5_Witness ==
    /\ pc = "exit1"
    /\ args.addr_type = 0 /\ args.digits = None /\ args.letters = None
    /\ args.startswith = <<"2">> /\ args.cpus = 2 /\ args.count = 1

\* C9: after its pill has been sent, a worker begins at most one more
\* Wallet::new.
C9_AtMostOneMoreCandidate == \A w \in Workers : gen_after_kill[w] <= 1

\* C9 witness: a worker that began one wallet after its pill was sent, and
\* has left its loop.
C9_Witness == \E w \in Spawned : gen_after_kill[w] = 1 /\ wpc[w] = "exited"

\* C10: a worker that has not left its loop can always take its next step:
\* the match send, the count send and the pill poll never wait, whatever
\* main is doing and whatever is queued.  (Handing out a new wallet is the
\* one step the exploration bounds.)
C10_WorkerNeverBlocks ==
    \A w \in Spawned :
        /\ wpc[w] = "generate" /\ WithinHorizon(w) => ENABLED Generate(w)
        /\ wpc[w] = "test" => ENABLED SendMatch(w)
        /\ wpc[w] = "count" => ENABLED CountAttempt(w)
        /\ wpc[w] = "poll" => ENABLED PollKillPill(w)

\* C10 witness: main is past its loop and drains nothing any more, two
\* wallets and a count batch sit undrained, and a worker holds a matching
\* wallet it is about to send.
C10_Witness ==
    /\ pc = "kill"
    /\ Len(rx_queue) >= 2 /\ Len(attempt_queue) >= 1
    /\ \E w \in Spawned : wpc[w] = "test" /\ match_(Matcher(args), wallet[w])

-----------------------------------------------------------------------------
(* Liveness of the engine, under LiveSpec.                                 *)

\* C4: shutdown sends every worker exactly one pill before main joins any
\* of them, and once main has left its loop it reaches the end of main:
\* every worker sees its pill, leaves its loop and is joined.
C4_ShutdownCompletes ==
    /\ [](pc \in {"join", "done"} =>
            \A w \in Spawned :
                /\ ~pill_tx_alive[w]
                /\ pill_queue[w] + (IF wpc[w] = "exited" THEN 1 ELSE 0) = 1)
    /\ [](\A w \in Workers : pill_queue[w] <= 1)
    /\ (pc = "kill") ~> (pc = "done")

\* C4 witness: main has ended after joining two workers, with wallets and
\* count batches left undrained.
C4_Witness ==
    /\ pc = "done"
    /\ args.cpus = 2
    /\ rx_queue # <<>> /\ attempt_queue # <<>>
    /\ \A w \in Spawned : wpc[w] = "exited"

\* The generator has stopped short: the exploration has handed out all its
\* wallets and fewer than wallet_count of them matched.
Starved == attempts >= MaxAttempts /\ matches_found + Len(rx_queue) < args.count

\* C3: with a valid configuration, for every worker count and every
\* wallet_count, the run ends (unless the generator stops short of
\* wallet_count matches).
C3_AlwaysTerminates ==
    ~ConfigError => (<>(pc = "done") \/ <>[]Starved)

\* C3, for one worker or more: the same statement restricted to --cpus >= 1.
C3_TerminatesWithWorkers ==
    (~ConfigError /\ args.cpus >= 1) => (<>(pc = "done") \/ <>[]Starved)

-----------------------------------------------------------------------------
(* Properties of Matcher::match_, under MatchSpec.                         *)

Contains(a, s) == \E p \in 0..Len(a) : \E q \in p..Len(a) : SubSeq(a, p + 1, q) = s

StartsWith(a, s) == \E q \in 0..Len(a) : SubSeq(a, 1, q) = s

EndsWith(a, s) == \E p \in 0..Len(a) : SubSeq(a, p + 1, Len(a)) = s

DigitCount(a) == Len(SelectSeq(a, LAMBDA c : c \in ascii_digits))

LetterCount(a) == Len(SelectSeq(a, LAMBDA c : c \in ascii_uppercase \cup ascii_lowercase))

\* C6: match_ returns true exactly when the candidate contains `contains`,
\* starts with `startswith`, ends with `endswith`, has at least `digits`
\* ASCII digits when digits is set and at least `letters` ASCII letters when
\* letters is set; an unset threshold is satisfied.
C6_MatchIffAllClauses ==
    verdict # "none" =>
        ((verdict = "true") <=>
            /\ Contains(candidate, args.contains)
            /\ StartsWith(candidate, args.startswith)
            /\ EndsWith(candidate, args.endswith)
            /\ (args.digits = None \/ DigitCount(candidate) >= unwrap(args.digits))
            /\ (args.letters = None \/ LetterCount(candidate) >= unwrap(args.letters)))

\* C6 witness: a match in which every pattern is non-empty, the digit
\* threshold is set and met with equality, and the letter threshold is unset.
C6_Witness ==
    /\ verdict = "true"
    /\ candidate = <<"1", "a", "1">>
    /\ args.startswith = <<"1">> /\ args.endswith = <<"a", "1">> /\ args.contains = <<"a">>
    /\ args.digits = Some(2) /\ args.letters = None

-----------------------------------------------------------------------------
(* Properties of Matcher::validate, under ValidateSpec.                    *)

\* The Base58 alphabet of SS58: the ASCII digits and letters without 0, O, I, l.
Base58Alphabet ==
    (ascii_digits \cup ascii_uppercase \cup ascii_lowercase) \ {"0", "O", "I", "l"}

HasForeignChar(s) == \E k \in 1..Len(s) : s[k] \notin Base58Alphabet

Rejected == verdict \notin {"none", "Ok"}

Accepted == verdict = "Ok"

\* C7: validate returns an error whenever startswith, endswith or contains
\* holds a character outside the alphabet, whatever the other fields and
\* the address type are.
C7_ForeignCharRejected ==
    (verdict # "none"
        /\ (HasForeignChar(args.startswith) \/ HasForeignChar(args.endswith)
                \/ HasForeignChar(args.contains)))
    => Rejected

\* C7 witness: only `contains` holds a foreign character, the prefix is the
\* right one for the address type, and validate has returned its error.
C7_Witness ==
    /\ Rejected
    /\ args.addr_type = 42 /\ args.startswith = <<"5">>
    /\ args.endswith = <<>> /\ args.contains = <<"O">>

\* C8 as stated: address type 0 is rejected with a prefix beginning with
\* '2' and accepted with a prefix beginning with '1'; address type 42 is
\* rejected with any prefix not starting with '5'.
C8_AsStated ==
    verdict # "none" =>
        /\ (args.addr_type = 0 /\ StartsWith(args.startswith, <<"2">>)) => Rejected
        /\ (args.addr_type = 0 /\ StartsWith(args.startswith, <<"1">>)) => Accepted
        /\ (args.addr_type = 42 /\ ~StartsWith(args.startswith, <<"5">>)) => Rejected

AllInAlphabet ==
    /\ ~HasForeignChar(args.startswith)
    /\ ~HasForeignChar(args.endswith)
    /\ ~HasForeignChar(args.contains)

\* C8 amended: address type 0 is rejected with a prefix beginning with '2';
\* it is accepted with a prefix beginning with '1' when startswith, endswith
\* and contains hold only characters of the alphabet; address type 42 is
\* rejected with any non-empty prefix not starting with '5'.
C8_FirstCharRule ==
    verdict # "none" =>
        /\ (args.addr_type = 0 /\ StartsWith(args.startswith, <<"2">>)) => Rejected
        /\ (args.addr_type = 0 /\ StartsWith(args.startswith, <<"1">>) /\ AllInAlphabet)
                => Accepted
        /\ (args.addr_type = 42 /\ args.startswith # <<>>
                /\ ~StartsWith(args.startswith, <<"5">>)) => Rejected

\* C8 witness: address type 42 with a prefix of legal characters that does
\* not start with '5' has been rejected.
C8_Witness ==
    /\ verdict = "Err: Generic Substrate address must start with '5'"
    /\ args.addr_type = 42 /\ args.startswith = <<"1", "5">>
    /\ args.endswith = <<"5">> /\ args.contains = <<>>

-----------------------------------------------------------------------------
(* Properties of the aggregator loop and of shutdown.                      *)

IsPrefix(a, b) == Len(a) <= Len(b) /\ SubSeq(b, 1, Len(a)) = a

TargetReached == matches_found >= args.count

\* wallets sent on tx that main has not received
Undelivered == Len(sent_log) - matches_found

\* C11: once matches_found has reached wallet_count, main never receives
\* from rx again and prints no further wallet (what is sent later only
\* lengthens the queue); such a send never fails, and with wallets still
\* undelivered after the loop the shutdown completes all the same, leaving
\* them undelivered.
C11_LateMatchesDiscarded ==
    /\ [][TargetReached =>
              /\ matches_found' = matches_found
              /\ emitted' = emitted
              /\ IsPrefix(rx_queue, rx_queue')]_vars
    /\ [](\A w \in Workers : wpc[w] # "panicked")
    /\ (LoopLeft /\ Undelivered > 0)
           ~> (pc = "done" /\ Undelivered > 0 /\ Len(emitted) = args.count)

\* a wallet generated after the pill was sent has been sent too (every
\* wallet generated was sent), and main has returned with it still queued
C11_Witness ==
    /\ pc = "done"
    /\ \E w \in Spawned : gen_after_kill[w] = 1
    /\ Len(sent_log) = attempts
    /\ Undelivered > 0
    /\ rx_queue # <<>>

\* C12: at every point the wallets printed are, in order, the first
\* matches_found wallets sent on tx; nothing is skipped or reordered, also
\* when equal addresses were sent: every wallet sent is either printed or
\* still queued behind the printed ones.
C12_ArrivalOrderNoDedup ==
    /\ Len(emitted) = matches_found
    /\ matches_found <= Len(sent_log)
    /\ emitted = SubSeq(sent_log, 1, matches_found)
    /\ rx_queue = SubSeq(sent_log, matches_found + 1, Len(sent_log))

\* two equal addresses were sent and both were printed
C12_Witness ==
    /\ Len(emitted) = 2
    /\ emitted[1] = emitted[2]
    /\ sent_log[1] = sent_log[2]

\* a step of main from the wait to the drain that counts no wallet
\* is a Timeout of recv_timeout
TimeoutTick == pc = "loop" /\ pc' = "drain" /\ matches_found' = matches_found

\* C13: a timeout of the wait leaves matches_found, the printed wallets
\* and the queued wallets as they were; and a wallet that is queued while
\* matches_found = n < wallet_count (after a timeout or not) is received,
\* printed and counted later: matches_found passes n and the wallet
\* printed in place n + 1 is the one that was sent in that place.
C13_TimeoutChangesNothing ==
    /\ [][TimeoutTick =>
              /\ rx_queue' = rx_queue
              /\ emitted' = emitted
              /\ sent_log' = sent_log]_vars
    /\ \A n \in 0..MaxCount :
           (/\ pc \in {"loop", "drain"}
            /\ matches_found = n
            /\ n < args.count
            /\ rx_queue # <<>>)
               ~> (/\ matches_found > n
                   /\ Len(emitted) > n
                   /\ emitted[n + 1] = sent_log[n + 1])

\* main is just past a timeout (no wallet was counted yet, so the step to
\* the drain was not a receive) and a wallet has been queued since
C13_Witness ==
    /\ pc = "drain"
    /\ matches_found = 0
    /\ emitted = <<>>
    /\ rx_queue # <<>>
    /\ args.count > 0

-----------------------------------------------------------------------------
(* Properties of the verbose report.                                       *)

\* C14: the report never divides by zero.  With an elapsed time of 0 whole
\* seconds it prints nothing and performs no division; with --verbose and
\* a positive elapsed time it prints total_attempts integer-divided by the
\* seconds; without --verbose, or without a clock reading, it is silent.
C14_NoDivisionByZero ==
    verdict # "none" =>
        /\ verdict # "panicked"
        /\ elapsed = Some(0) => (verdict = "silent" /\ reported = None)
        /\ (verbose /\ is_some(elapsed) /\ elapsed # Some(0)) =>
               /\ verdict = "printed"
               /\ is_some(reported)
               /\ unwrap(reported) * unwrap(elapsed) <= total_attempts
               /\ total_attempts < (unwrap(reported) + 1) * unwrap(elapsed)
        /\ (~verbose \/ elapsed = None) => (verdict = "silent" /\ reported = None)

\* the report ran with --verbose less than a second after start_time,
\* with attempts already counted
C14_Witness ==
    /\ verdict = "silent"
    /\ verbose
    /\ elapsed = Some(0)
    /\ total_attempts > 0

-----------------------------------------------------------------------------
(* Properties of the worker loop.                                          *)

\* C15 as stated: the pill is tested at the top of the loop, so a worker
\* that begins an iteration with its pill already queued generates no
\* wallet in that iteration (it never moves on to the match test).
C15_AsStated ==
    [][\A w \in Workers :
          (wpc[w] = "generate" /\ pill_queue[w] > 0) =>
              (wpc'[w] # "test" /\ wallet'[w] = wallet[w])]_vars

\* C15, amended: the pill is tested once per iteration at the bottom of
\* the loop.  From the top of the loop a worker only ever goes on to
\* generate a wallet, pill or no pill; it leaves the loop only from the
\* poll that follows the count, and with a pill queued that poll ends it.
C15_PollAtLoopBottom ==
    [][\A w \in Workers :
          /\ (wpc[w] = "generate" /\ wpc'[w] # "generate") =>
                 /\ wpc'[w] = "test"
                 /\ wallet'[w] \in Wallet_new(args.addr_type, FALSE)
                 /\ attempts' = attempts + 1
          /\ (wpc[w] # "exited" /\ wpc'[w] = "exited") => wpc[w] = "poll"
          /\ (wpc[w] = "poll" /\ pill_queue[w] > 0 /\ wpc'[w] # "poll") =>
                 wpc'[w] = "exited"]_vars

\* a worker began an iteration with its pill queued and has generated a
\* wallet in it
C15_Witness ==
    \E w \in Spawned :
        /\ wpc[w] = "test"
        /\ pill_queue[w] > 0
        /\ gen_after_kill[w] = 1
        /\ wallet[w] # NoWallet

\* C16: a worker's unreported_attempts stays below report_threshold, every
\* number on the count channel is exactly report_threshold, and
\* total_attempts never decreases, is always a multiple of report_threshold
\* and never exceeds the number of Wallet::new calls made by all workers.
C16_ProgressBatches ==
    /\ [](\A w \in Workers : unreported_attempts[w] < report_threshold)
    /\ [](\A k \in 1..Len(attempt_queue) : attempt_queue[k] = report_threshold)
    /\ [](total_attempts % report_threshold = 0)
    /\ [](total_attempts <= attempts)
    /\ [][total_attempts' >= total_attempts]_vars

\* main has added one batch to total_attempts while a worker holds a
\* remainder that is not reported
C16_Witness ==
    /\ total_attempts = report_threshold
    /\ attempts > total_attempts
    /\ \E w \in Spawned : unreported_attempts[w] > 0

\* try_recv of worker w would return Ok(()) or Err(Disconnected)
SignalObserved(w) == wpc[w] = "poll" /\ (pill_queue[w] > 0 \/ ~pill_tx_alive[w])

\* C17: the step in which a worker observes its pill (or a closed pill
\* channel) takes it out of the loop and sends nothing: both channels and
\* the number of wallets generated are as before, the unreported
\* remainder is left as it was.  An exited worker stays exited, takes no
\* further step, and so neither sends nor generates again.
C17_ExitDiscardsRemainder ==
    /\ [][\A w \in Workers :
              /\ (SignalObserved(w) /\ wpc'[w] # wpc[w]) =>
                     /\ wpc'[w] = "exited"
                     /\ attempt_queue' = attempt_queue
                     /\ rx_queue' = rx_queue
                     /\ sent_log' = sent_log
                     /\ attempts' = attempts
                     /\ unreported_attempts'[w] = unreported_attempts[w]
              /\ wpc[w] = "exited" =>
                     /\ wpc'[w] = "exited"
                     /\ unreported_attempts'[w] = unreported_attempts[w]
                     /\ wallet'[w] = wallet[w]
                     /\ gen_after_kill'[w] = gen_after_kill[w]]_vars
    /\ [](\A w \in Workers : wpc[w] = "exited" => ~ENABLED Worker(w))

\* a worker has left the loop with attempts it never reported
C17_Witness ==
    \E w \in Spawned :
        /\ wpc[w] = "exited"
        /\ unreported_attempts[w] > 0
        /\ pill_queue[w] = 0

-----------------------------------------------------------------------------
(* Properties of the engine's life cycle.                                  *)

\* main has sent worker w its pill (the Sender is consumed by the send)
PillSent(w) == wpc[w] # "unspawned" /\ ~pill_tx_alive[w]

\* 0 up to and including the receive loop, 1 while main sends pills and
\* joins, 2 when every worker is joined
Phase ==
    IF pc = "done" THEN 2
    ELSE IF pc \in {"kill", "join"} THEN 1
    ELSE 0

\* C18: the engine only moves forward through Running, Draining and
\* Terminated.  While matches_found < wallet_count no pill has been sent
\* and no worker has terminated; from the first pill on, matches_found and
\* the printed wallets never change.
C18_PhasesInOrder ==
    /\ [](matches_found < args.count =>
              /\ Phase = 0
              /\ \A w \in Workers :
                     /\ ~PillSent(w)
                     /\ pill_queue[w] = 0
                     /\ wpc[w] # "exited")
    /\ [][Phase' >= Phase]_vars
    /\ [][(\E w \in Workers : PillSent(w)) =>
              (matches_found' = matches_found /\ emitted' = emitted)]_vars

\* the engine went through all three phases: two wallets were found, both
\* workers got their pill and were joined
C18_Witness ==
    /\ Phase = 2
    /\ args.cpus = 2 /\ args.count = 2
    /\ matches_found = 2
    /\ \A w \in Spawned : PillSent(w) /\ wpc[w] = "exited"

\* worker w is inside its loop
Running(w) == wpc[w] \in {"generate", "test", "count", "poll"}

\* C19: no end of a channel is ever seen disconnected.  No thread panics
\* (a failed send, a Disconnected receive and a failed join are the only
\* panics of the engine); main keeps rx, attempt_count_rx and its own tx
\* for as long as a worker runs or main waits on rx; a pill is only ever
\* sent to a worker that is still running; a running worker whose Sender
\* is gone has its pill queued; and a worker leaves its loop only in a
\* step that takes a pill out of its queue.
C19_NoDisconnectObserved ==
    /\ [](pc # "panicked" /\ \A w \in Workers : wpc[w] # "panicked")
    /\ []((pc = "loop" \/ \E w \in Workers : Running(w)) => ~rx_dropped)
    /\ []((pc = "kill" /\ i < args.cpus) => Running(i + 1))
    /\ [](\A w \in Workers : (Running(w) /\ ~pill_tx_alive[w]) => pill_queue[w] > 0)
    /\ [][\A w \in Workers :
              (wpc[w] # "exited" /\ wpc'[w] = "exited") =>
                  (pill_queue[w] > 0 /\ pill_queue'[w] = pill_queue[w] - 1)]_vars

\* every kind of send and receive has happened and the engine is done:
\* wallets and a count batch were sent, one wallet was received, both
\* pills were sent and taken
C19_Witness ==
    /\ pc = "done"
    /\ args.cpus = 2
    /\ matches_found = 1
    /\ Len(sent_log) > 1
    /\ total_attempts + seq_sum(attempt_queue) > 0
    /\ \A w \in Spawned : wpc[w] = "exited" /\ pill_queue[w] = 0 /\ ~pill_tx_alive[w]

====
